---- MODULE Spec2Model ----
\* A model of cserna::DynamicPriorityQueue
\* (src/include/dynamic_priority_queue.hpp): an array-backed binary heap
\* whose items carry (intrusive accessor) or are mapped to
\* (NonIntrusiveIndexFunction) their current position in the array.
\*
\* Items are pointers (T = TestItem*), modelled by the identities
\* 1..NumItems; value[x] is the priority field, index the recorded
\* positions.  The queue is instantiated as in the test file, with
\* INITIAL_CAPACITY = MAX_CAPACITY, so the vector never reallocates:
\* queue is the reserved storage (slots 0..MAX_CAPACITY-1, including the
\* slots at and above size(), which keep whatever was last written
\* there), size is queue.size().  The asserts are compiled in (no NDEBUG):
\* a failed assert aborts the process, and the run ends.
EXTENDS Integers, Sequences, FiniteSets

\* ---- bounds of the model ----
MaxCapacity == 3     \* MAX_CAPACITY ranges over 0..MaxCapacity
NumItems == 3        \* items of a run
MaxValue == 1        \* priorities are 0..MaxValue
HeapItems == 4       \* items of a run of SpecHeap and SpecDrain
NumElements == 3     \* elements a ThreeWayComparatorAdapter compares

\* std::numeric_limits<std::size_t>::max(), the "not queued" position.  It is
\* only ever compared for equality with array indices, so the largest integer
\* of TLC stands for 2^64 - 1.
SIZE_MAX == 2147483647

\* content of a reserved slot that was never written
NoItem == 0

Values == 0..MaxValue

VARIABLES
    MAX_CAPACITY,   \* template parameter (= INITIAL_CAPACITY)
    nonIntrusive,   \* TRUE: IndexFunction = NonIntrusiveIndexFunction
    queue,          \* reserved storage of the std::vector
    size,           \* queue.size()
    value,          \* TestItem::value of every item
    index,          \* TestItem::index, or the indexMap (a partial function)
    corrupt,        \* a write beyond the allocation has overwritten the
                    \* allocator's bookkeeping
    last,           \* the last call: operation, argument, outcome, result
    filled,         \* history (SpecDrain): the items pushed so far
    drained,        \* history (SpecDrain): the items popped so far, in order
    visited,        \* history: the items the action of the last forEach was
                    \* applied to, in order
    adapted         \* a ThreeWayComparatorAdapter (its Comparator, as the
                    \* relation it decides) and its last call

\* the items of the run: the TestItem objects the caller has created
Items == DOMAIN value

vars == <<MAX_CAPACITY, nonIntrusive, queue, size, value, index, corrupt,
          last, filled, drained, visited, adapted>>

\* ItemCompare::operator(): three-way comparison of the value fields
comparator(val, lhs, rhs) ==
    IF val[lhs] < val[rhs] THEN -1
    ELSE IF val[lhs] > val[rhs] THEN 1
    ELSE 0

\* the values a ThreeWayComparatorAdapter is applied to
Elements == 0..(NumElements - 1)

\* A faulty adapter: the second test of the Comparator is missing.
ThreeWayComparatorAdapter_OneTest(less, lhs, rhs) ==
    IF <<lhs, rhs>> \in less THEN -1
    ELSE 1

\* ThreeWayComparatorAdapter::operator(); less is the relation that the
\* Comparator decides: comparator(x, y) is <<x, y>> \in less
ThreeWayComparatorAdapter(less, lhs, rhs) ==
    IF <<lhs, rhs>> \in less THEN -1
    ELSE IF <<rhs, lhs>> \in less THEN 1
    ELSE 0

\* an adapter over the Comparator less, before its first call
Adapter(less) ==
    [less |-> less, called |-> FALSE, lhs |-> 0, rhs |-> 0, result |-> 0]

\* indexFunction(item) through the const overload: a pure read; an item
\* without a map entry reads as SIZE_MAX.
IndexGet(ix, item) ==
    IF item \in DOMAIN ix THEN ix[item] ELSE SIZE_MAX

\* indexFunction(item) through the non-const overload, which is the one a
\* non-const member function of the queue selects: for the non-intrusive
\* accessor indexMap[item] default-constructs a missing entry (position 0).
IndexRef(ix, item) ==
    IF item \in DOMAIN ix THEN ix
    ELSE [y \in DOMAIN ix \cup {item} |-> IF y = item THEN 0 ELSE ix[y]]

\* indexFunction(item) = position
IndexSet(ix, item, position) ==
    [y \in DOMAIN ix \cup {item} |-> IF y = item THEN position ELSE ix[y]]

\* queue[i] = item.  A write at i >= MAX_CAPACITY lands beyond the allocation:
\* it does not reach the storage.
Store(q, i, item) ==
    IF i \in DOMAIN q THEN [q EXCEPT ![i] = item] ELSE q

\* queue[i] is beyond the allocation
Beyond(q, i) == i \notin DOMAIN q

\* queue[i] read by siftUp / siftDown
Load(q, i) ==
    IF i \in DOMAIN q THEN q[i] ELSE NoItem

\* siftUp and siftDown yield the array and the positions afterwards, whether
\* they wrote beyond the allocation (oob), and the indices they passed to
\* queue[] (touched).
RECURSIVE siftUpLoop(_, _, _, _, _)
siftUpLoop(val, q, ix, currentIndex, item) ==
    LET placed == [queue |-> Store(q, currentIndex, item),
                   index |-> IndexSet(ix, item, currentIndex),
                   oob |-> Beyond(q, currentIndex),
                   touched |-> {currentIndex}]
    IN  IF currentIndex > 0
        THEN LET parentIndex == (currentIndex - 1) \div 2
                 parentItem == Load(q, parentIndex)
             IN  IF comparator(val, item, parentItem) >= 0
                 THEN [placed EXCEPT !.touched = @ \cup {parentIndex}]
                 ELSE LET s == siftUpLoop(val,
                                          Store(q, currentIndex, parentItem),
                                          IndexSet(ix, parentItem, currentIndex),
                                          parentIndex, item)
                      IN  [s EXCEPT !.oob = @ \/ Beyond(q, currentIndex),
                                    !.touched = @ \cup {parentIndex,
                                                        currentIndex}]
        ELSE placed

siftUp(val, q, ix, idx, item) == siftUpLoop(val, q, ix, idx, item)

RECURSIVE siftDownLoop(_, _, _, _, _, _)
siftDownLoop(val, q, ix, sz, currentIndex, item) ==
    LET half == sz \div 2
        placed == [queue |-> Store(q, currentIndex, item),
                   index |-> IndexSet(ix, item, currentIndex),
                   oob |-> Beyond(q, currentIndex),
                   touched |-> {currentIndex}]
    IN  IF currentIndex < half
        THEN LET leftIndex == (currentIndex * 2) + 1
                 rightIndex == leftIndex + 1
                 useRight == rightIndex < sz
                             /\ comparator(val, Load(q, leftIndex),
                                           Load(q, rightIndex)) > 0
                 childIndex == IF useRight THEN rightIndex ELSE leftIndex
                 childItem == Load(q, childIndex)
                 read == IF rightIndex < sz THEN {leftIndex, rightIndex}
                         ELSE {leftIndex}
             IN  IF comparator(val, item, childItem) <= 0
                 THEN [placed EXCEPT !.touched = @ \cup read]
                 ELSE LET s == siftDownLoop(val,
                                            Store(q, currentIndex, childItem),
                                            IndexSet(ix, childItem, currentIndex),
                                            sz, childIndex, item)
                      IN  [s EXCEPT !.oob = @ \/ Beyond(q, currentIndex),
                                    !.touched = @ \cup read \cup {currentIndex}]
        ELSE placed

siftDown(val, q, ix, sz, idx, item) == siftDownLoop(val, q, ix, sz, idx, item)

\* ---- the public operations, as functions of the queue's members ----
\* Each yields the outcome (status), the members afterwards, the item
\* returned (NoItem when there is none) and whether it wrote beyond the
\* allocation.

Outcome(st, q, ix, sz, r, o) ==
    [status |-> st, queue |-> q, index |-> ix, size |-> sz, ret |-> r,
     oob |-> o]

\* A faulty push(): the item's position is recorded before the capacity test.
pushOp_RecordedFirst(val, q, ix, sz, cap, item) ==
    IF sz = cap
    THEN Outcome("overflow_error", q, IndexSet(ix, item, sz), sz, NoItem, FALSE)
    ELSE IF sz = 0
         THEN Outcome("ok", Store(q, 0, item), IndexSet(ix, item, 0), 1, NoItem,
                      FALSE)
         ELSE LET pushed == Store(q, sz, item)
                  s == siftUp(val, pushed, ix, sz + 1, item)
              IN  Outcome("ok", s.queue, s.index, sz + 1, NoItem, s.oob)

\* push(T&& item)
pushOp(val, q, ix, sz, cap, item) ==
    IF sz = cap
    THEN Outcome("overflow_error", q, ix, sz, NoItem, FALSE)
    ELSE IF sz = 0
         THEN Outcome("ok", Store(q, 0, item), IndexSet(ix, item, 0), 1, NoItem,
                      FALSE)
         ELSE LET pushed == Store(q, sz, item)          \* queue.push_back(item)
                  s == siftUp(val, pushed, ix, sz + 1, item)
              IN  Outcome("ok", s.queue, s.index, sz + 1, NoItem, s.oob)

\* pop(); last_item is what the read of queue[queue.size()] yields
popOp(val, q, ix, sz, last_item) ==
    IF sz = 0
    THEN Outcome("underflow_error", q, ix, sz, NoItem, FALSE)
    ELSE LET top_item == Load(q, 0)
             s == IF sz - 1 # 0
                  THEN siftDown(val, q, ix, sz - 1, 0, last_item)
                  ELSE [queue |-> q, index |-> ix, oob |-> FALSE]
             ref == IndexRef(s.index, top_item)
         IN  IF ref[top_item] = 0
             THEN Outcome("ok", s.queue, IndexSet(ref, top_item, SIZE_MAX),
                          sz - 1, top_item, s.oob)
             ELSE Outcome("assert", s.queue, ref, sz - 1, NoItem, s.oob)

\* top()
topOp(q, ix, sz) ==
    IF sz = 0
    THEN Outcome("underflow_error", q, ix, sz, NoItem, FALSE)
    ELSE Outcome("ok", q, ix, sz, Load(q, 0), FALSE)

RECURSIVE clearLoop(_, _, _, _)
clearLoop(q, ix, sz, i) ==
    IF i < sz
    THEN clearLoop(q, IndexSet(ix, Load(q, i), SIZE_MAX), sz, i + 1)
    ELSE ix

\* clear()
clearOp(q, ix, sz) ==
    Outcome("ok", q, clearLoop(q, ix, sz, 0), 0, NoItem, FALSE)

\* A faulty update(): the item is only sifted up, never down.
updateOp_SiftUpOnly(val, q, ix, sz, item) ==
    LET ref == IndexRef(ix, item)
        idx == ref[item]
    IN  IF idx = SIZE_MAX
        THEN Outcome("assert", q, ref, sz, NoItem, FALSE)
        ELSE LET up == siftUp(val, q, ref, idx, item)
             IN  Outcome("ok", up.queue, up.index, sz, NoItem, up.oob)

\* update(T&& item)
updateOp(val, q, ix, sz, item) ==
    LET ref == IndexRef(ix, item)
        idx == ref[item]
    IN  IF idx = SIZE_MAX
        THEN Outcome("assert", q, ref, sz, NoItem, FALSE)
        ELSE LET up == siftUp(val, q, ref, idx, item)
                 s == IF up.index[item] = idx
                      THEN siftDown(val, up.queue, up.index, sz, idx, item)
                      ELSE up
             IN  Outcome("ok", s.queue, s.index, sz, NoItem, up.oob \/ s.oob)

\* insertOrUpdate(T& item)
insertOrUpdateOp(val, q, ix, sz, cap, item) ==
    LET ref == IndexRef(ix, item)
    IN  IF ref[item] = SIZE_MAX
        THEN pushOp(val, q, ref, sz, cap, item)
        ELSE updateOp(val, q, ref, sz, item)

\* remove(item), which the tests call and the header does not define: the
\* algorithm of spec section 4.3.
removeOp(val, q, ix, sz, item) ==
    LET p == IndexGet(ix, item)
    IN  IF p = SIZE_MAX
        THEN Outcome("assert", q, ix, sz, NoItem, FALSE)
        ELSE IF p = sz - 1
             THEN Outcome("ok", q, IndexSet(ix, item, SIZE_MAX), sz - 1, NoItem,
                          FALSE)
             ELSE LET moved == Load(q, sz - 1)
                      up == siftUp(val, q, ix, p, moved)
                      s == IF up.index[moved] = p
                           THEN siftDown(val, up.queue, up.index, sz - 1, p, moved)
                           ELSE up
                  IN  Outcome("ok", s.queue, IndexSet(s.index, item, SIZE_MAX),
                              sz - 1, NoItem, up.oob \/ s.oob)

\* empty()
empty(sz) == sz = 0

\* a T*: the address of a T of the caller, which is no T
AddressOf(item) == 0 - item

\* the accessor can be called with arg: its parameter is a T
AccessorAccepts(arg) == arg \in Items

\* contains(T* item): hands its argument, a T*, to the const accessor.  The
\* call is ill-formed when the accessor does not take a T* (the member is
\* only instantiated when it is called); it then has no result.
contains(ix, ptr) ==
    IF AccessorAccepts(ptr)
    THEN [status |-> "ok", ret |-> IndexGet(ix, ptr) # SIZE_MAX]
    ELSE [status |-> "ill-formed"]

\* forEach(action), for an action that assigns the priority g[item] to the
\* item it is applied to: the range-for over the vector applies it to
\* queue[0], ..., queue[size() - 1].  Yields the priorities and the items
\* the action was applied to, in order.
RECURSIVE forEachLoop(_, _, _, _, _, _)
forEachLoop(val, seen, q, sz, g, i) ==
    IF i < sz
    THEN forEachLoop([val EXCEPT ![q[i]] = g[q[i]]], Append(seen, q[i]),
                     q, sz, g, i + 1)
    ELSE [value |-> val, visited |-> seen]

forEachOp(val, q, sz, g) == forEachLoop(val, <<>>, q, sz, g, 0)

\* The outcomes of reading queue[i] for i >= queue.size(): a reserved slot
\* yields what was last written there, an unwritten slot or a slot beyond the
\* allocation yields an arbitrary pointer.
SlotOutcomes(q, i, pointers) ==
    IF i \in DOMAIN q /\ q[i] # NoItem THEN {q[i]} ELSE pointers

\* ---- the state machine ----

\* ---- the data model's invariants (spec section 3) ----

\* queue[i] for an occupied slot i
Stored(item) == \E i \in 0..(size - 1) : queue[i] = item

\* the items in the occupied slots
StoredItems == {queue[i] : i \in 0..(size - 1)}

HeapOrder ==
    \A i \in 1..(size - 1) :
        comparator(value, queue[(i - 1) \div 2], queue[i]) <= 0

PositionConsistent ==
    /\ \A i \in 0..(size - 1) : IndexGet(index, queue[i]) = i
    /\ \A item \in Items : ~Stored(item) => IndexGet(index, item) = SIZE_MAX

\* The record of a call: the operation, its argument, its outcome and result,
\* and what held when it was called: size(), the argument's recorded position,
\* whether the queue satisfied both invariants, and the items it stored.
Call(o, x, r) ==
    [op |-> o, item |-> x, status |-> r.status, ret |-> r.ret,
     size |-> size,
     pos |-> IF x = NoItem THEN SIZE_MAX ELSE IndexGet(index, x),
     consistent |-> HeapOrder /\ PositionConsistent,
     stored |-> StoredItems]

\* the process has been aborted: by a failed assert, or by the allocator
Aborted == last.status \in {"assert", "abort"}

\* The call allocates: it throws (the exception object and its message), or
\* the indexMap gets a new entry.
Allocates(r) ==
    \/ r.status \in {"overflow_error", "underflow_error"}
    \/ DOMAIN r.index # DOMAIN index

\* The call o(x) with outcome r.  A write beyond the allocation may have
\* overwritten the allocator's bookkeeping (it has not when the block has
\* slack); once it has, the allocator aborts the process on the next
\* allocation ("malloc(): corrupted top size").
Effect(o, x, r) ==
    \/ /\ Allocates(r)
       /\ corrupt \/ r.oob
       /\ last' = Call(o, x, [r EXCEPT !.status = "abort", !.ret = NoItem])
       /\ UNCHANGED <<queue, index, size, corrupt>>
    \/ /\ ~(Allocates(r) /\ corrupt)
       /\ queue' = r.queue
       /\ index' = r.index
       /\ size' = r.size
       /\ corrupt' \in IF r.oob THEN {corrupt, TRUE} ELSE {corrupt}
       /\ last' = Call(o, x, r)

\* The state after construction of a queue with the given template parameter
\* and accessor, for a caller that has created the given items.
Constructed(cap, nonintr, items) ==
    /\ MAX_CAPACITY = cap
    /\ nonIntrusive = nonintr
    /\ queue = [i \in 0..(cap - 1) |-> NoItem]
    /\ size = 0
    /\ value \in [items -> Values]
    /\ index = IF nonintr THEN [x \in {} |-> 0]
               ELSE [x \in items |-> SIZE_MAX]
    /\ corrupt = FALSE
    /\ last = [op |-> "new", item |-> NoItem, status |-> "ok", ret |-> NoItem,
               size |-> 0, pos |-> SIZE_MAX, consistent |-> TRUE, stored |-> {}]
    /\ filled = {}
    /\ drained = <<>>
    /\ visited = <<>>
    /\ adapted = Adapter({})

\* queue.push(item), for an item whose recorded position is the sentinel
push(item) ==
    /\ ~Aborted
    /\ IndexGet(index, item) = SIZE_MAX
    /\ LET r == pushOp(value, queue, index, size, MAX_CAPACITY, item)
       IN  Effect("push", item, r)
    /\ UNCHANGED <<MAX_CAPACITY, nonIntrusive, value>>

\* queue.pop()
pop ==
    /\ ~Aborted
    /\ \E last_item \in SlotOutcomes(queue, size, Items) :
         LET r == popOp(value, queue, index, size, last_item)
         IN  Effect("pop", NoItem, r)
    /\ UNCHANGED <<MAX_CAPACITY, nonIntrusive, value>>

\* queue.top()
top ==
    /\ ~Aborted
    /\ LET r == topOp(queue, index, size)
       IN  Effect("top", NoItem, r)
    /\ UNCHANGED <<MAX_CAPACITY, nonIntrusive, value>>

\* queue.clear()
clear ==
    /\ ~Aborted
    /\ LET r == clearOp(queue, index, size)
       IN  Effect("clear", NoItem, r)
    /\ UNCHANGED <<MAX_CAPACITY, nonIntrusive, value>>

\* item->value = v; queue.update(item), for an item whose recorded position is
\* not the sentinel
update(item, v) ==
    /\ ~Aborted
    /\ IndexGet(index, item) # SIZE_MAX
    /\ value' = [value EXCEPT ![item] = v]
    /\ LET r == updateOp(value', queue, index, size, item)
       IN  Effect("update", item, r)
    /\ UNCHANGED <<MAX_CAPACITY, nonIntrusive>>

\* queue.update(item) outside its precondition: for an item whose recorded
\* position is the sentinel
updateNotQueued(item) ==
    /\ ~Aborted
    /\ IndexGet(index, item) = SIZE_MAX
    /\ LET r == updateOp(value, queue, index, size, item)
       IN  Effect("update", item, r)
    /\ UNCHANGED <<MAX_CAPACITY, nonIntrusive, value>>

\* item->value = v; queue.insertOrUpdate(item)
insertOrUpdate(item, v) ==
    /\ ~Aborted
    /\ value' = [value EXCEPT ![item] = v]
    /\ LET r == insertOrUpdateOp(value', queue, index, size, MAX_CAPACITY, item)
       IN  Effect("insertOrUpdate", item, r)
    /\ UNCHANGED <<MAX_CAPACITY, nonIntrusive>>

\* queue.forEach(action), for the action [](TestItem* x) { x->value = g[x]; }
forEach(g) ==
    /\ ~Aborted
    /\ LET r == forEachOp(value, queue, size, g)
       IN  /\ value' = r.value
           /\ visited' = r.visited
    /\ Effect("forEach", NoItem,
              Outcome("ok", queue, index, size, NoItem, FALSE))
    /\ UNCHANGED <<MAX_CAPACITY, nonIntrusive, filled, drained, adapted>>

\* queue.remove(item), for an item whose recorded position is an occupied
\* slot (the spec's algorithm says nothing about another position)
remove(item) ==
    /\ ~Aborted
    /\ IndexGet(index, item) < size
    /\ LET r == removeOp(value, queue, index, size, item)
       IN  Effect("remove", item, r)
    /\ UNCHANGED <<MAX_CAPACITY, nonIntrusive, value>>

\* ---- Spec: the intrusive accessor, every capacity up to MaxCapacity ----

Init == \E cap \in 0..MaxCapacity : Constructed(cap, FALSE, 1..NumItems)

Next ==
    /\ \/ \E item \in Items : push(item)
       \/ pop
       \/ top
       \/ clear
       \/ \E item \in Items, v \in Values : update(item, v)
       \/ \E item \in Items, v \in Values : insertOrUpdate(item, v)
    /\ UNCHANGED <<filled, drained, visited, adapted>>

Spec == Init /\ [][Next]_vars

\* ---- SpecReserved: the intrusive accessor, with more reserved storage than
\* the caller has items, as in the tests (100 slots, at most 6 items) ----

InitReserved == Constructed(NumItems + 1, FALSE, 1..NumItems)

SpecReserved == InitReserved /\ [][Next]_vars

\* ---- SpecNonIntrusive: NonIntrusiveIndexFunction ----

InitNonIntrusive == Constructed(NumItems + 1, TRUE, 1..NumItems)

SpecNonIntrusive == InitNonIntrusive /\ [][Next]_vars

\* ---- SpecHeap: the intrusive accessor with HeapItems items, whose priorities
\* stay as constructed; only push, pop and clear are called ----

InitHeap == Constructed(HeapItems + 1, FALSE, 1..HeapItems)

NextHeap ==
    /\ \/ \E item \in Items : push(item)
       \/ pop
       \/ clear
    /\ UNCHANGED <<filled, drained, visited, adapted>>

SpecHeap == InitHeap /\ [][NextHeap]_vars

\* ---- SpecRemove: as SpecReserved; push, pop and remove are called ----

NextRemove ==
    /\ \/ \E item \in Items : push(item)
       \/ pop
       \/ \E item \in Items : remove(item)
    /\ UNCHANGED <<filled, drained, visited, adapted>>

SpecRemove == InitReserved /\ [][NextRemove]_vars

\* ---- SpecDrain: items are pushed into the empty queue, then popped until
\* the queue is empty; filled and drained record them ----

fill(item) ==
    /\ drained = <<>>
    /\ push(item)
    /\ filled' = IF last'.status = "ok" THEN filled \cup {item} ELSE filled
    /\ UNCHANGED <<drained, visited, adapted>>

drain ==
    /\ size > 0
    /\ pop
    /\ drained' = IF last'.status = "ok" THEN Append(drained, last'.ret)
                  ELSE drained
    /\ UNCHANGED <<filled, visited, adapted>>

NextDrain == (\E item \in Items : fill(item)) \/ drain

SpecDrain == InitHeap /\ [][NextDrain]_vars

\* ---- SpecCapacity: the intrusive accessor, every capacity up to
\* MaxCapacity and one item more than fit; the priorities stay as
\* constructed; push, pop, top and clear are called ----

InitCapacity ==
    \E cap \in 0..MaxCapacity : Constructed(cap, FALSE, 1..(MaxCapacity + 1))

NextCapacity ==
    /\ \/ \E item \in Items : push(item)
       \/ pop
       \/ top
       \/ clear
    /\ UNCHANGED <<filled, drained, visited, adapted>>

SpecCapacity == InitCapacity /\ [][NextCapacity]_vars

\* ---- SpecNotQueued: NonIntrusiveIndexFunction; push and pop, and update
\* called on items that are not queued ----

NextNotQueued ==
    /\ \/ \E item \in Items : push(item)
       \/ pop
       \/ \E item \in Items : updateNotQueued(item)
    /\ UNCHANGED <<filled, drained, visited, adapted>>

SpecNotQueued == InitNonIntrusive /\ [][NextNotQueued]_vars

\* ---- SpecForEach: as SpecReserved; push, pop and forEach are called ----

NextForEach ==
    \/ /\ \/ \E item \in Items : push(item)
          \/ pop
       /\ UNCHANGED <<filled, drained, visited, adapted>>
    \/ \E g \in [Items -> Values] : forEach(g)

SpecForEach == InitReserved /\ [][NextForEach]_vars

\* ---- SpecAdapter: a ThreeWayComparatorAdapter over any Comparator on the
\* elements, next to a queue that is not used ----

InitAdapter ==
    /\ MAX_CAPACITY = 0
    /\ nonIntrusive = FALSE
    /\ queue = <<>>
    /\ size = 0
    /\ value = <<>>
    /\ index = <<>>
    /\ corrupt = FALSE
    /\ last = [op |-> "new", item |-> NoItem, status |-> "ok", ret |-> NoItem,
               size |-> 0, pos |-> SIZE_MAX, consistent |-> TRUE, stored |-> {}]
    /\ filled = {}
    /\ drained = <<>>
    /\ visited = <<>>
    /\ \E less \in SUBSET (Elements \X Elements) : adapted = Adapter(less)

\* adapter(lhs, rhs)
compare3(lhs, rhs) ==
    /\ adapted' = [adapted EXCEPT
                     !.called = TRUE, !.lhs = lhs, !.rhs = rhs,
                     !.result = ThreeWayComparatorAdapter(adapted.less, lhs, rhs)]
    /\ UNCHANGED <<MAX_CAPACITY, nonIntrusive, queue, size, value, index,
                   corrupt, last, filled, drained, visited>>

NextAdapter == \E lhs \in Elements, rhs \in Elements : compare3(lhs, rhs)

SpecAdapter == InitAdapter /\ [][NextAdapter]_vars

\* ---- sanity of the model ----
TypeOK ==
    /\ size \in 0..MAX_CAPACITY
    /\ DOMAIN queue = 0..(MAX_CAPACITY - 1)
    /\ \A i \in DOMAIN queue : queue[i] \in Items \cup {NoItem}
    /\ \A i \in 0..(size - 1) : queue[i] \in Items
    /\ DOMAIN index \subseteq Items
    /\ \A x \in DOMAIN index : index[x] \in 0..MAX_CAPACITY \cup {SIZE_MAX}
    /\ corrupt \in BOOLEAN

\* ---- the properties of the specification ----

\* C1: heap order: after every sequence of calls made within their
\* preconditions, compare(queue[(i-1)/2], queue[i]) <= 0 for 0 < i < size().
C1_HeapOrder == HeapOrder

\* C2: position consistency: the item in slot i has recorded position i, and
\* an item in no slot has the sentinel (pushing two items records 0 and 1).
C2_PositionConsistency == PositionConsistent

\* drained is in non-decreasing comparator order
Sorted(seq) ==
    \A i \in 1..(Len(seq) - 1) : comparator(value, seq[i], seq[i + 1]) <= 0

\* C3: sorted extraction: N items pushed into the empty queue and popped N
\* times come back, each once, in non-decreasing comparator order (judged
\* once the pops have emptied the queue and all have returned).
C3_SortedExtraction ==
    (size = 0 /\ drained # <<>> /\ ~Aborted) =>
        /\ Len(drained) = Cardinality(filled)
        /\ {drained[i] : i \in 1..Len(drained)} = filled
        /\ Sorted(drained)

\* C4: pop() on a non-empty queue returns an item that compares <= every item
\* stored before the call, removes exactly that item, and leaves its recorded
\* position at the sentinel.
C4_Pop ==
    (last.op = "pop" /\ last.size > 0) =>
        /\ last.status = "ok"
        /\ \A y \in last.stored : comparator(value, last.ret, y) <= 0
        /\ size = last.size - 1
        /\ last.ret \notin StoredItems
        /\ \A y \in last.stored \ {last.ret} : Stored(y)
        /\ IndexGet(index, last.ret) = SIZE_MAX

\* C5: update: called on a stored item whose priority was changed in place,
\* in a state where heap order and position consistency held, update leaves
\* both holding again, the stored items and size() unchanged, and an item that
\* became strictly smaller than every other stored item at position 0.
C5_Update ==
    (last.op = "update" /\ last.consistent /\ last.item \in last.stored) =>
        /\ last.status = "ok"
        /\ HeapOrder
        /\ PositionConsistent
        /\ size = last.size
        /\ StoredItems = last.stored
        /\ (\A y \in StoredItems \ {last.item} :
                comparator(value, last.item, y) < 0)
             => IndexGet(index, last.item) = 0

\* C5's case: an update of an item of a consistent queue of at least two
\* items has moved the item to the root.
C5_Witness ==
    /\ last.op = "update" /\ last.consistent /\ last.item \in last.stored
    /\ last.size >= 2
    /\ last.pos # 0
    /\ IndexGet(index, last.item) = 0

\* C6: capacity: push fails with std::overflow_error exactly when size()
\* equals MAX_CAPACITY (so the first MAX_CAPACITY pushes into the empty queue
\* succeed and the next fails, and with MAX_CAPACITY = 0 every push fails),
\* and size() <= MAX_CAPACITY always.
C6_Capacity ==
    /\ size <= MAX_CAPACITY
    /\ last.op = "push" =>
          IF last.size = MAX_CAPACITY
          THEN last.status = "overflow_error" /\ size = last.size
          ELSE last.status = "ok" /\ size = last.size + 1

\* C7: empty boundary: pop() and top() fail with std::underflow_error exactly
\* when size() = 0, and succeed whenever size() > 0.
C7_EmptyBoundary ==
    last.op \in {"pop", "top"} =>
        IF last.size = 0
        THEN last.status = "underflow_error"
        ELSE last.status = "ok"

\* C8: remove(item) on a stored item removes exactly that item: size()
\* decreases by 1, the item's recorded position becomes the sentinel, heap
\* order and position consistency hold for the remaining items.
C8_Remove ==
    (last.op = "remove" /\ last.item \in last.stored) =>
        /\ last.status = "ok"
        /\ size = last.size - 1
        /\ IndexGet(index, last.item) = SIZE_MAX
        /\ StoredItems = last.stored \ {last.item}
        /\ HeapOrder
        /\ PositionConsistent

\* C9: insertOrUpdate(item) has exactly the effect of push(item) when the item
\* is not stored and of update(item) when it is; afterwards the item is
\* stored, and size() grew by 1 only in the first case.
C9_InsertOrUpdate ==
    [][\A item \in Items :
         (last'.op = "insertOrUpdate" /\ last'.item = item) =>
            LET r == IF Stored(item)
                     THEN updateOp(value', queue, index, size, item)
                     ELSE pushOp(value', queue, index, size, MAX_CAPACITY, item)
            IN  /\ last'.status = r.status
                /\ queue' = r.queue /\ index' = r.index /\ size' = r.size
                /\ last'.status = "ok" =>
                      /\ Stored(item)'
                      /\ size' = IF Stored(item) THEN size ELSE size + 1]_vars

\* C10: clear() leaves size() = 0 (empty() true) and the recorded position of
\* every item that was stored before the call at the sentinel, and contains,
\* called for such an item, yields false.
C10_Clear ==
    last.op = "clear" =>
        /\ last.status = "ok"
        /\ size = 0 /\ empty(size)
        /\ \A y \in last.stored :
              /\ IndexGet(index, y) = SIZE_MAX
              /\ LET c == contains(index, AddressOf(y))
                 IN  c.status = "ok" /\ ~c.ret

\* C11: top() on a non-empty queue returns an item that compares <= every
\* stored item and whose recorded position is 0, the item the next pop()
\* returns, and leaves the array, size() and every recorded position unchanged.
C11_Top ==
    [][(last'.op = "top" /\ size > 0) =>
          /\ last'.status = "ok"
          /\ \A y \in StoredItems : comparator(value, last'.ret, y) <= 0
          /\ IndexGet(index', last'.ret) = 0
          /\ queue' = queue /\ size' = size /\ index' = index
          /\ \A last_item \in SlotOutcomes(queue', size', Items) :
                LET r == popOp(value', queue', index', size', last_item)
                IN  r.status = "ok" /\ r.ret = last'.ret]_vars

\* C12: failure atomicity: when push fails at maximum capacity, or pop or
\* top on the empty queue, the array, size() and every recorded position,
\* that of the rejected item included, are what they were before the call.
C12_FailureAtomicity ==
    [][last'.status \in {"overflow_error", "underflow_error"} =>
          /\ queue' = queue
          /\ size' = size
          /\ index' = index]_vars

\* C12's case: a push into a full queue that stores an item was rejected.
C12_Witness ==
    /\ last.op = "push" /\ last.status = "overflow_error"
    /\ size = MAX_CAPACITY /\ size >= 1
    /\ IndexGet(index, last.item) = SIZE_MAX

\* C13: size accounting: a successful push increases size() by 1, a
\* successful pop decreases it by 1, empty() holds iff size() = 0, and k
\* pushes into the empty queue followed by k pops (each of them returning)
\* leave size() = 0 and empty() true.
C13_SizeAccounting ==
    /\ (last.op = "push" /\ last.status = "ok") => size = last.size + 1
    /\ (last.op = "pop" /\ last.status = "ok") => size = last.size - 1
    /\ empty(size) <=> size = 0
    /\ (last.op = "pop" /\ last.size > 0) => last.status = "ok"
    /\ (drained # <<>> /\ Len(drained) = Cardinality(filled)) =>
          size = 0 /\ empty(size)

\* C14: update(item) on an item whose recorded position is the sentinel
\* fails as a precondition violation and changes neither the array, size()
\* nor any recorded position.
C14_UpdateNotQueued ==
    [][\A item \in Items :
         (last'.op = "update" /\ last'.item = item
          /\ IndexGet(index, item) = SIZE_MAX) =>
            /\ last'.status = "assert"
            /\ queue' = queue
            /\ size' = size
            /\ \A y \in Items : IndexGet(index', y) = IndexGet(index, y)]_vars

\* C15: with the non-intrusive accessor, the position read that update and
\* insertOrUpdate perform for an item without a map entry yields the sentinel
\* and creates no entry: update fails its precondition and the map keeps its
\* keys, insertOrUpdate takes the push branch (the item is stored and size()
\* grows by one, or the queue is full); and in every state a read after
\* Set(item, p) yields p.
C15_NonIntrusiveRead ==
    [][\A item \in Items :
         /\ \A p \in 0..MAX_CAPACITY :
               IndexGet(IndexSet(index, item, p), item) = p
         /\ (/\ nonIntrusive
             /\ last'.op \in {"update", "insertOrUpdate"}
             /\ last'.item = item
             /\ item \notin DOMAIN index
             /\ last'.status # "abort") =>
               /\ IndexRef(index, item) = index
               /\ last'.op = "update" =>
                     last'.status = "assert" /\ DOMAIN index' = DOMAIN index
               /\ last'.op = "insertOrUpdate" =>
                     \/ last'.status = "overflow_error" /\ size = MAX_CAPACITY
                     \/ /\ last'.status = "ok"
                        /\ size' = size + 1
                        /\ \E i \in 0..(size' - 1) : queue'[i] = item]_vars

\* C16: a forEach applies the action exactly once to each stored item, size()
\* applications in all, and changes neither the array, nor size(), nor any
\* recorded position, whatever priorities the action assigns.
C16_ForEach ==
    [][last'.op = "forEach" =>
          /\ Len(visited') = size
          /\ \A x \in StoredItems :
                Cardinality({k \in 1..Len(visited') : visited'[k] = x}) = 1
          /\ \A k \in 1..Len(visited') : visited'[k] \in StoredItems
          /\ queue' = queue /\ size' = size /\ index' = index]_vars

\* less is a strict weak order on the elements: irreflexive, transitive, and
\* incomparability is transitive
StrictWeakOrder(less) ==
    /\ \A x \in Elements : <<x, x>> \notin less
    /\ \A x \in Elements, y \in Elements, z \in Elements :
          (<<x, y>> \in less /\ <<y, z>> \in less) => <<x, z>> \in less
    /\ \A x \in Elements, y \in Elements, z \in Elements :
          (/\ <<x, y>> \notin less /\ <<y, x>> \notin less
           /\ <<y, z>> \notin less /\ <<z, y>> \notin less) =>
              (<<x, z>> \notin less /\ <<z, x>> \notin less)

\* C17: for a strict weak order less, the adapter's result for (a, b) is -1
\* if less(a, b), 1 if less(b, a) and 0 otherwise; it is in {-1, 0, 1}, it is
\* the negation of the result for (b, a), and the result for (a, a) is 0.
C17_ComparatorAdapter ==
    (adapted.called /\ StrictWeakOrder(adapted.less)) =>
        LET a == adapted.lhs
            b == adapted.rhs
            less == adapted.less
        IN  /\ <<a, b>> \in less => adapted.result = -1
            /\ <<b, a>> \in less => adapted.result = 1
            /\ (<<a, b>> \notin less /\ <<b, a>> \notin less) =>
                  adapted.result = 0
            /\ adapted.result \in {-1, 0, 1}
            /\ adapted.result = -ThreeWayComparatorAdapter(less, b, a)
            /\ ThreeWayComparatorAdapter(less, a, a) = 0

C17_Witness ==
    /\ adapted.called
    /\ StrictWeakOrder(adapted.less)
    /\ <<adapted.rhs, adapted.lhs>> \in adapted.less
    /\ adapted.result = 1
    /\ \E x \in Elements, y \in Elements :
          x # y /\ <<x, y>> \notin adapted.less /\ <<y, x>> \notin adapted.less

\* C18: the assertion of pop() (the recorded position of the item being
\* returned is 0) never fails in a run of calls made within their
\* preconditions.
C18_PopAssertion ==
    last.op = "pop" => last.status # "assert"

\* an operation that passes the indices touched to queue[] while the vector's
\* length is len stays within the vector
Within(touched, len) == \A i \in touched : i < len

\* push(item): after push_back the length is sz + 1
pushInBounds(val, q, ix, sz, cap, item) ==
    (sz # cap /\ sz # 0) =>
        Within(siftUp(val, Store(q, sz, item), ix, sz + 1, item).touched, sz + 1)

\* pop(): queue[0] and queue[queue.size()] are read at length sz, siftDown
\* runs at length sz - 1
popInBounds(val, q, ix, sz, last_item) ==
    sz # 0 =>
        /\ Within({0, sz}, sz)
        /\ sz - 1 # 0 =>
              Within(siftDown(val, q, ix, sz - 1, 0, last_item).touched, sz - 1)

\* top(): queue[0]
topInBounds(sz) == sz # 0 => Within({0}, sz)

\* clear(): queue[i] for i < queue.size()
clearInBounds(sz) == Within(0..(sz - 1), sz)

\* update(item), for an item whose recorded position is not the sentinel
updateInBounds(val, q, ix, sz, item) ==
    LET idx == IndexRef(ix, item)[item]
        up == siftUp(val, q, IndexRef(ix, item), idx, item)
        down == IF up.index[item] = idx
                THEN siftDown(val, up.queue, up.index, sz, idx, item).touched
                ELSE {}
    IN  idx # SIZE_MAX => Within(up.touched \cup down, sz)

\* C19: every call of push, pop, top, clear and update, made within its
\* precondition, passes to queue[] only indices smaller than the vector's
\* length at that moment.
C19_BoundsSafety ==
    [][/\ last'.op = "push" =>
             pushInBounds(value, queue, index, size, MAX_CAPACITY, last'.item)
       /\ last'.op = "pop" =>
             \A last_item \in SlotOutcomes(queue, size, Items) :
                 popInBounds(value, queue, index, size, last_item)
       /\ last'.op = "top" => topInBounds(size)
       /\ last'.op = "clear" => clearInBounds(size)
       /\ last'.op = "update" =>
             updateInBounds(value', queue, index, size, last'.item)]_vars

\* the number of slots of q[0..sz) that hold item
Occurrences(q, sz, item) == Cardinality({i \in 0..(sz - 1) : q[i] = item})

\* C20: no loss, no duplication.  Starting from the empty queue, the multiset
\* of items in queue[0..size()) is the items pushed minus the items popped:
\* a successful push adds one occurrence of its item and nothing else, a
\* successful pop removes one occurrence of the item it returns and nothing
\* else, a successful update leaves every item's occurrences as they were;
\* and no item occupies two slots.
C20_NoLossNoDuplication ==
    [][(last'.op \in {"push", "pop", "update"} /\ last'.status = "ok") =>
          \A x \in Items :
             /\ Occurrences(queue', size', x) =
                   Occurrences(queue, size, x)
                   + (IF last'.op = "push" /\ last'.item = x THEN 1 ELSE 0)
                   - (IF last'.op = "pop" /\ last'.ret = x THEN 1 ELSE 0)
             /\ Occurrences(queue', size', x) <= 1]_vars


====
